---- MODULE Spec2Model ----
(***************************************************************************)
(* Model of src/js/notifications.js.  Class API: the offline request       *)
(* buffer (request / queueRequest / processQueue), the HTTP error handlers *)
(* and the withRetry helper.  Class Notifications: the live collection     *)
(* (show / remove / clear / cleanupExpired), its timers, the sequential    *)
(* queue (showQueued / processQueue) and confirm.                          *)
(*                                                                         *)
(* JavaScript runs one handler at a time.  An action of this model is one  *)
(* turn of the event loop: the handler or the continuation after an await  *)
(* that the platform completes (fetch, body read, timer), followed by the  *)
(* promise continuations it makes runnable (microtasks), which run before  *)
(* the next turn.                                                          *)
(***************************************************************************)
EXTENDS Integers, Sequences, FiniteSets, TLC

VARIABLES
    isOnline,              \* API.isOnline
    notificationsDefined,  \* typeof Notifications !== 'undefined'
    authToken,             \* API.authToken ("null" models null)
    storedToken,           \* localStorage key 'authToken' ("null": key absent)
    now,                   \* Date.now(), in ms
    requestQueue,          \* API.requestQueue
    req,                   \* the invocations of API.request, in call order
    passes,                \* the invocations of processQueue that took a snapshot
    nEnt,                  \* number of entries pushed so far (entry identity)
    redirects,             \* pending setTimeout(... '/login', 2000) timers
    location,              \* window.location.href: "app" or "/login"
    wr,                    \* the state of one API.withRetry invocation
    notifications,         \* Notifications.notifications (the live collection)
    dom,                   \* the .notification elements of the container
    timers,                \* pending setTimeout / setInterval callbacks
    issued,                \* the ids show has returned, in call order
    queue,                 \* Notifications.queue
    isProcessing,          \* Notifications.isProcessing
    qcalls,                \* the showQueued calls and their promises
    confirms,              \* the confirm calls and their promises
    dq,                    \* one evaluation of the duration show chooses
    wsk,                   \* API.ws, wsReconnectAttempts and the sockets made
    cart,                  \* Cart.items and the outcome of the last call
    deb,                   \* Utils.debounceTimers, the wrappers and their timers
    stg                    \* localStorage and the outcome of the last accessor

apiVars == <<isOnline, notificationsDefined, authToken, storedToken, now,
             requestQueue, req, passes, nEnt, redirects, location>>
uiVars == <<notifications, dom, timers, issued, queue, isProcessing,
            qcalls, confirms, dq>>
otherVars == <<wsk, cart, deb, stg>>
vars == <<isOnline, notificationsDefined, authToken, storedToken, now,
          requestQueue, req, passes, nEnt, redirects, location, wr, uiVars,
          otherVars>>

\* ---------------------------------------------------------------- bounds
MaxReq == 4      \* invocations of API.request (callers' and replays)
\* of these, the ones made by callers (the others are replays)
MaxCalls == MaxReq \div 2
MaxTicks == 2    \* clock steps

\* Date.now() - item.timestamp < 5 * 60 * 1000
StaleThreshold == 5 * 60 * 1000
\* the clock advances in steps that reach the threshold exactly
TickMs == StaleThreshold \div 2

\* response.status values of a response that is not ok: 401 and 500 have a
\* case in the switch of handleError, 404 has none
ErrStatuses == {401, 404, 500}

HttpError(status) ==
    CASE status = 401 -> "HTTP401"
      [] status = 403 -> "HTTP403"
      [] status = 404 -> "HTTP404"
      [] status = 429 -> "HTTP429"
      [] OTHER -> "HTTP500"

Settled == {"resolved", "rejected"}

\* ------------------------------------------------------- promise plumbing
\* The part of the state the promise continuations work on; work holds the
\* requests whose promise was settled and whose awaiter has not run yet.
Cur == [req |-> req, queue |-> requestQueue, passes |-> passes,
        nEnt |-> nEnt, work |-> <<>>]

\* settling the promise of request r
Settle(S, r, st, err) ==
    [S EXCEPT !.req[r].st = st, !.req[r].err = err, !.work = Append(@, r)]

\* the notification call guarded by typeof Notifications !== 'undefined':
\* API never assigns this.notifications, so the call throws a TypeError
NotifyThrows == notificationsDefined

\* queueRequest called by request r, whose promise takes the state of the
\* promise made here.  The executor pushes the entry and then notifies; an
\* exception in the executor rejects the promise.
queueRequest(S, r) ==
    LET item == [id |-> S.nEnt + 1, req |-> r, timestamp |-> now]
        S1 == [S EXCEPT !.queue = Append(@, item), !.nEnt = @ + 1]
    IN  IF NotifyThrows
        THEN Settle(S1, r, "rejected", "TypeError")
        ELSE [S1 EXCEPT !.req[r].st = "pending"]

\* the catch block of request r, entered with error; online is this.isOnline
requestCatch(S, r, error, online) ==
    IF ~online /\ S.req[r].qo
    THEN queueRequest(S, r)
    ELSE Settle(S, r, "rejected", error)

\* item.resolve / item.reject: they settle the promise made by queueRequest
\* unless it is settled already
itemResolve(S, item) ==
    IF S.req[item.req].st = "pending"
    THEN Settle(S, item.req, "resolved", "none") ELSE S

itemReject(S, item, error) ==
    IF S.req[item.req].st = "pending"
    THEN Settle(S, item.req, "rejected", error) ELSE S

\* a request as it is when it reaches await fetch(...)
NewRequest(qo, replayOf) ==
    [st |-> "fetching", resp |-> 0, err |-> "none", qo |-> qo,
     replayOf |-> replayOf]

\* the for loop of pass p from its current item, up to the next await
RECURSIVE drainLoop(_, _)
drainLoop(S, p) ==
    LET P == S.passes[p] IN
    IF P.idx > Len(P.snapshot) THEN S
    ELSE LET item == P.snapshot[P.idx] IN
         IF now - item.timestamp < StaleThreshold
         THEN \* this.request(item.endpoint, item.config), awaited
              [S EXCEPT !.req = Append(@, NewRequest(TRUE, item.id)),
                        !.passes[p].cur = Len(S.req) + 1,
                        !.passes[p].log = Append(@, <<"start", P.idx>>)]
         ELSE drainLoop(
                [itemReject(S, item, "Expired") EXCEPT
                    !.passes[p].idx = @ + 1,
                    !.passes[p].log = Append(@, <<"stale", P.idx>>)], p)

\* pass p continues after its awaited replay has settled
drainResume(S, p) ==
    LET P == S.passes[p]
        item == P.snapshot[P.idx]
        r == P.cur
        S1 == IF S.req[r].st = "resolved"
              THEN itemResolve(S, item)
              ELSE itemReject(S, item, S.req[r].err)
    IN  drainLoop([S1 EXCEPT !.passes[p].idx = @ + 1,
                             !.passes[p].cur = 0,
                             !.passes[p].log = Append(@, <<"done", P.idx>>)], p)

Reverse(q) == [k \in 1..Len(q) |-> q[Len(q) + 1 - k]]

\* processQueue taking the buffer newest first
processQueue_Reversed(S, online) ==
    IF ~online \/ S.queue = <<>> THEN S
    ELSE drainLoop(
           [S EXCEPT !.passes = Append(@, [snapshot |-> Reverse(S.queue),
                                           idx |-> 1, cur |-> 0,
                                           log |-> <<>>]),
                     !.queue = <<>>],
           Len(S.passes) + 1)

\* processQueue without this.requestQueue = []
processQueue_NoClear(S, online) ==
    IF ~online \/ S.queue = <<>> THEN S
    ELSE drainLoop(
           [S EXCEPT !.passes = Append(@, [snapshot |-> S.queue, idx |-> 1,
                                           cur |-> 0, log |-> <<>>])],
           Len(S.passes) + 1)

\* processQueue that keeps the first entry of the buffer only
processQueue_HeadOnly(S, online) ==
    IF ~online \/ S.queue = <<>> THEN S
    ELSE drainLoop(
           [S EXCEPT !.passes = Append(@, [snapshot |-> <<Head(S.queue)>>,
                                           idx |-> 1, cur |-> 0,
                                           log |-> <<>>]),
                     !.queue = <<>>],
           Len(S.passes) + 1)

\* processQueue, called with this.isOnline = online
processQueue(S, online) ==
    IF ~online \/ S.queue = <<>> THEN S
    ELSE drainLoop(
           [S EXCEPT !.passes = Append(@, [snapshot |-> S.queue, idx |-> 1,
                                           cur |-> 0, log |-> <<>>]),
                     !.queue = <<>>],
           Len(S.passes) + 1)

\* the continuations made runnable by settled promises, run to exhaustion
RECURSIVE runMicrotasks(_)
runMicrotasks(S) ==
    IF S.work = <<>> THEN S
    ELSE LET r == Head(S.work)
             S1 == [S EXCEPT !.work = Tail(@)]
             waiting == {p \in 1..Len(S1.passes) : S1.passes[p].cur = r}
         IN  IF waiting = {} THEN runMicrotasks(S1)
             ELSE runMicrotasks(drainResume(S1, CHOOSE p \in waiting : TRUE))

\* the state after a turn: the bound on request invocations is a guard
Commit(S) ==
    /\ Len(S.req) <= MaxReq
    /\ req' = S.req
    /\ requestQueue' = S.queue
    /\ passes' = S.passes
    /\ nEnt' = S.nEnt

\* ---------------------------------------------------------- error handlers
\* setAuthToken(token)
setAuthToken(token) ==
    /\ authToken' = token
    /\ storedToken' = token

\* the switch of handleError for a response with this status; the result is
\* the error request() throws: the HTTP error, or the TypeError of a handler
handleErrorThrows(status) ==
    IF status \in {401, 403, 429, 500} /\ NotifyThrows
    THEN "TypeError" ELSE HttpError(status)

handleErrorEffects(status) ==
    IF status = 401
    THEN \* handleUnauthorized
         /\ setAuthToken("null")
         /\ redirects' = IF NotifyThrows THEN redirects ELSE redirects + 1
    ELSE UNCHANGED <<authToken, storedToken, redirects>>

\* ----------------------------------------------------------------- actions
Alive == location = "app"

\* a caller calls API.request(endpoint, options); it runs to await fetch
Request(qo) ==
    /\ Alive
    /\ Cardinality({r \in 1..Len(req) : req[r].replayOf = 0}) < MaxCalls
    /\ Commit([Cur EXCEPT !.req = Append(@, NewRequest(qo, 0))])
    /\ UNCHANGED <<isOnline, notificationsDefined, authToken, storedToken,
                   now, redirects, location, wr, uiVars, otherVars>>

\* fetch of request r rejects (network failure)
FetchFail(r) ==
    /\ Alive
    /\ r \in 1..Len(req) /\ req[r].st = "fetching"
    /\ Commit(runMicrotasks(requestCatch(Cur, r, "NetworkError", isOnline)))
    /\ UNCHANGED <<isOnline, notificationsDefined, authToken, storedToken,
                   now, redirects, location, wr, uiVars, otherVars>>

\* fetch of request r resolves with a response of this status.  For an ok
\* response request reads the body; for any other, handleError awaits the
\* body before it builds the error
FetchRespond(r, status) ==
    /\ Alive
    /\ r \in 1..Len(req) /\ req[r].st = "fetching"
    /\ req' = [req EXCEPT ![r].st = "reading", ![r].resp = status]
    /\ UNCHANGED <<isOnline, notificationsDefined, authToken, storedToken,
                   now, requestQueue, passes, nEnt, redirects, location, wr, uiVars, otherVars>>

\* the body of the response to request r has been read; the response is
\* not used after this
BodyRead(r) ==
    /\ Alive
    /\ r \in 1..Len(req) /\ req[r].st = "reading"
    /\ LET S == [Cur EXCEPT !.req[r].resp = 0] IN
       IF req[r].resp = 200
       THEN /\ Commit(runMicrotasks(Settle(S, r, "resolved", "none")))
            /\ UNCHANGED <<authToken, storedToken, redirects>>
       ELSE /\ handleErrorEffects(req[r].resp)
            /\ Commit(runMicrotasks(
                 requestCatch(S, r, handleErrorThrows(req[r].resp), isOnline)))
    /\ UNCHANGED <<isOnline, notificationsDefined, now, location, wr, uiVars, otherVars>>

\* the online listener without its call of processQueue
Online_NoDrain ==
    /\ Alive
    /\ ~isOnline
    /\ isOnline' = TRUE
    /\ UNCHANGED <<notificationsDefined, authToken, storedToken, now,
                   requestQueue, req, passes, nEnt, redirects, location, wr, uiVars, otherVars>>

\* the window's online event (it fires when the platform goes online)
Online ==
    /\ Alive
    /\ ~isOnline
    /\ isOnline' = TRUE
    /\ Commit(runMicrotasks(processQueue(Cur, TRUE)))
    /\ UNCHANGED <<notificationsDefined, authToken, storedToken, now,
                   redirects, location, wr, uiVars, otherVars>>

\* an offline listener that also drops the credential
Offline_DropsToken ==
    /\ Alive
    /\ isOnline
    /\ isOnline' = FALSE
    /\ setAuthToken("null")
    /\ UNCHANGED <<notificationsDefined, now, requestQueue, req, passes, nEnt,
                   redirects, location, wr, uiVars, otherVars>>

\* the listeners of online and offline end with the notification call,
\* which throws when it is made: the listener then ends with an uncaught
\* TypeError
ListenerThrows == NotifyThrows

\* the window's offline event
Offline ==
    /\ Alive
    /\ isOnline
    /\ isOnline' = FALSE
    /\ UNCHANGED <<notificationsDefined, authToken, storedToken, now,
                   requestQueue, req, passes, nEnt, redirects, location, wr, uiVars, otherVars>>

\* the redirect timer of handleUnauthorized fires: the page is left
RedirectFire ==
    /\ Alive
    /\ redirects > 0
    /\ location' = "/login"
    /\ redirects' = redirects - 1
    /\ UNCHANGED <<isOnline, notificationsDefined, authToken, storedToken,
                   now, requestQueue, req, passes, nEnt, wr, uiVars, otherVars>>

\* time passes
Tick ==
    /\ Alive
    /\ now < MaxTicks * TickMs
    /\ now' = now + TickMs
    /\ UNCHANGED <<isOnline, notificationsDefined, authToken, storedToken,
                   requestQueue, req, passes, nEnt, redirects, location, wr, uiVars, otherVars>>

\* ------------------------------------------------------------- withRetry
MaxAttempts == 3  \* largest maxRetries passed to withRetry

\* what one call of fn does: 200 is a fulfilled promise, any other value a
\* rejection with an error of that status (0: an error with no status)
FnOutcomes == {200, 0, 399, 400, 404, 499, 500, 503}
BaseDelays == {0, 250, 1000}

WrIdle == [pc |-> "idle", maxRetries |-> 0, delay |-> 0, i |-> 0,
           calls |-> 0, waits |-> <<>>, hist |-> <<>>, lastError |-> <<>>,
           result |-> "none"]

\* the test with 400 left out
IsClientError_Above400(status) == status > 400 /\ status < 500

\* error.status >= 400 && error.status < 500
IsClientError(status) == status >= 400 /\ status < 500

Pow2(n) == 2 ^ n

\* the wait without the backoff factor
RetryDelay_NoBackoff(delay, i) == delay

\* delay * Math.pow(2, i)
RetryDelay(delay, i) == delay * Pow2(i)

\* the head of the for loop with counter i: call fn, or leave the loop and
\* throw lastError
wrLoop(w, i) ==
    IF i < w.maxRetries
    THEN [w EXCEPT !.i = i, !.pc = "awaitFn", !.calls = @ + 1]
    ELSE [w EXCEPT !.i = i, !.pc = "done", !.result = "rejected"]

\* the catch block of the loop body, entered with an error of this status
wrCatch(w, status) ==
    LET w1 == [w EXCEPT !.lastError = <<status>>] IN
    IF IsClientError(status)
    THEN [w1 EXCEPT !.pc = "done", !.result = "rejected"]
    ELSE IF w.i < w.maxRetries - 1
         THEN [w1 EXCEPT !.pc = "waiting",
                         !.waits = Append(@, RetryDelay(w.delay, w.i))]
         ELSE wrLoop(w1, w.i + 1)

\* a caller calls withRetry(fn, maxRetries, delay)
WrCall(maxRetries, delay) ==
    /\ wr.pc = "idle"
    /\ wr' = wrLoop([WrIdle EXCEPT !.maxRetries = maxRetries,
                                   !.delay = delay], 0)
    /\ UNCHANGED <<apiVars, uiVars, otherVars>>

\* the promise returned by fn settles
WrFnSettles(outcome) ==
    /\ wr.pc = "awaitFn"
    /\ LET w == [wr EXCEPT !.hist = Append(@, outcome)] IN
       wr' = IF outcome = 200
             THEN [w EXCEPT !.pc = "done", !.result = "resolved"]
             ELSE wrCatch(w, outcome)
    /\ UNCHANGED <<apiVars, uiVars, otherVars>>

\* the timer of the wait before the next attempt fires
WrTimer ==
    /\ wr.pc = "waiting"
    /\ wr' = wrLoop(wr, wr.i + 1)
    /\ UNCHANGED <<apiVars, uiVars, otherVars>>

InitAPI ==
    /\ isOnline \in BOOLEAN
    /\ notificationsDefined \in BOOLEAN
    /\ storedToken \in {"null", "tok"}
    /\ authToken = storedToken
    /\ now = 0
    /\ requestQueue = <<>>
    /\ req = <<>>
    /\ passes = <<>>
    /\ nEnt = 0
    /\ redirects = 0
    /\ location = "app"

\* ============================================================= WebSocket
MaxSockets == 6   \* most WebSocket objects made in one run

maxReconnectAttempts == 5

\* ws is the index in sockets of this.ws (0: null), sockets holds the
\* readyState of every WebSocket made, scheduled the delays of the timers
\* attemptReconnect has armed and that have not fired
WsInit == [ws |-> 0, sockets |-> <<>>, wsReconnectAttempts |-> 0,
           scheduled |-> <<>>]

Min(a, b) == IF a <= b THEN a ELSE b

\* the delay without the cap
ReconnectDelay_NoCap(attempts) == 1000 * Pow2(attempts)

\* Math.min(1000 * Math.pow(2, this.wsReconnectAttempts), 30000)
ReconnectDelay(attempts) == Min(1000 * Pow2(attempts), 30000)

\* connectWebSocket(url); throws tells whether new WebSocket(url) throws
connectWebSocket(W, throws) ==
    IF W.ws # 0 /\ W.sockets[W.ws] = "open" THEN W
    ELSE IF throws THEN W
    ELSE [W EXCEPT !.sockets = Append(@, "connecting"),
                   !.ws = Len(W.sockets) + 1]

attemptReconnect(W) ==
    IF W.wsReconnectAttempts >= maxReconnectAttempts THEN W
    ELSE [W EXCEPT !.wsReconnectAttempts = @ + 1,
                   !.scheduled = Append(@, ReconnectDelay(W.wsReconnectAttempts + 1))]

\* a caller calls connectWebSocket(url)
WsConnect(throws) ==
    /\ Len(wsk.sockets) < MaxSockets
    /\ wsk' = connectWebSocket(wsk, throws)
    /\ UNCHANGED <<apiVars, wr, uiVars, cart, deb, stg>>

\* socket i opens: its onopen handler
WsOpen(i) ==
    /\ i \in 1..Len(wsk.sockets) /\ wsk.sockets[i] = "connecting"
    /\ wsk' = [wsk EXCEPT !.sockets[i] = "open", !.wsReconnectAttempts = 0]
    /\ UNCHANGED <<apiVars, wr, uiVars, cart, deb, stg>>

\* socket i closes (a failed connection closes without opening): its
\* onclose handler
WsClose(i) ==
    /\ i \in 1..Len(wsk.sockets) /\ wsk.sockets[i] # "closed"
    /\ wsk' = attemptReconnect([wsk EXCEPT !.sockets[i] = "closed"])
    /\ UNCHANGED <<apiVars, wr, uiVars, cart, deb, stg>>

\* the k-th pending timer of attemptReconnect fires
WsReconnectTimer(k, throws) ==
    /\ k \in 1..Len(wsk.scheduled)
    /\ Len(wsk.sockets) < MaxSockets
    /\ wsk' = connectWebSocket(
                [wsk EXCEPT !.scheduled = [j \in 1..(Len(@) - 1) |->
                                             IF j < k THEN @[j] ELSE @[j + 1]]],
                throws)
    /\ UNCHANGED <<apiVars, wr, uiVars, cart, deb, stg>>

\* ========================================================= Notifications
MaxShown == 2     \* most calls of show in one run
MaxSweeps == 3    \* the run ends after this many periods of the sweep
MaxQueued == 3    \* most calls of showQueued in one run

SweepInterval == 1000   \* the period of setInterval in bindEvents
AnimationDelay == 300   \* the hide animation of remove, the gap of the queue
Horizon == MaxSweeps * SweepInterval

apiIdle == <<isOnline, notificationsDefined, authToken, storedToken,
             requestQueue, req, passes, nEnt, redirects, location, wr>>

\* JavaScript values a duration can be
Undefined == [t |-> "undefined", v |-> 0]
NaN == [t |-> "nan", v |-> 0]
Fn == [t |-> "function", v |-> 0]
Num(n) == [t |-> "number", v |-> n]

\* ToBoolean
Truthy(x) == x.t = "function" \/ (x.t = "number" /\ x.v # 0)

\* a || b
Or(a, b) == IF Truthy(a) THEN a ELSE b

\* a + n for a number n: a function is turned into a string, and the sum is
\* a string that is no number
Plus(a, n) == IF a.t = "number" THEN Num(a.v + n) ELSE NaN

\* the delay setTimeout gives to its second argument
ToDelay(x) == IF x.t = "number" /\ x.v > 0 THEN x.v ELSE 0

\* a >= b for a number a
GE(a, b) == b.t = "number" /\ a >= b.v

\* the own properties of the durations object
Durations == [success |-> 3000, error |-> 5000, warning |-> 4000, info |-> 3000]

\* properties every object inherits from Object.prototype (some of them)
ObjectPrototypeKeys == {"toString", "constructor", "valueOf", "hasOwnProperty"}

\* durations[type] || 3000
getDefaultDuration(type) ==
    LET d == IF type \in DOMAIN Durations THEN Num(Durations[type])
             ELSE IF type \in ObjectPrototypeKeys THEN Fn
             ELSE Undefined
    IN  Or(d, Num(3000))

NoId == <<0, 0>>   \* an id generateId never makes (no such random part)

\* 'notification-' + Date.now() + '-' + (nine digits of Math.random())
generateId(rnd) == <<now, rnd>>

Timer(kind, id, el, call, due) ==
    [kind |-> kind, id |-> id, el |-> el, call |-> call, due |-> due]

NCur == [notifications |-> notifications, dom |-> dom, timers |-> timers,
         issued |-> issued, queue |-> queue, isProcessing |-> isProcessing,
         qcalls |-> qcalls, confirms |-> confirms]

NCommit(N) ==
    /\ notifications' = N.notifications
    /\ dom' = N.dom
    /\ timers' = N.timers
    /\ issued' = N.issued
    /\ queue' = N.queue
    /\ isProcessing' = N.isProcessing
    /\ qcalls' = N.qcalls
    /\ confirms' = N.confirms

Live(N, id) == \E k \in 1..Len(N.notifications) : N.notifications[k].id = id

\* container.querySelector('[data-id="id"]'): the first element in document
\* order with that id, 0 when there is none
querySelector(N, id) ==
    LET found == {k \in 1..Len(N.dom) : N.dom[k].id = id} IN
    IF found = {} THEN 0
    ELSE CHOOSE k \in found : \A j \in found : k <= j

\* the element is appended to the container; el numbers the elements in
\* the order of their creation, action and progress tell whether it has
\* the action container and the progress bar
render(N, notification) ==
    [N EXCEPT !.dom = Append(@, [el |-> Len(N.issued) + 1,
                                 id |-> notification.id,
                                 action |-> notification.action,
                                 progress |-> ~notification.persistent])]

\* remove that keeps the record in the collection
remove_HideOnly(N, id) ==
    IF ~Live(N, id) THEN N
    ELSE LET k == querySelector(N, id) IN
         IF k = 0 THEN N
         ELSE [N EXCEPT !.timers = @ \cup
                  {Timer("detach", id, N.dom[k].el, 0, now + AnimationDelay)}]

\* remove by splice(findIndex(id), 1), with no test of the index
remove_Splice(N, id) ==
    LET found == {k \in 1..Len(N.notifications) : N.notifications[k].id = id}
        at == IF found = {} THEN Len(N.notifications)
              ELSE CHOOSE k \in found : \A j \in found : k <= j
    IN  [N EXCEPT !.notifications =
            [j \in 1..(Len(@) - (IF @ = <<>> THEN 0 ELSE 1)) |->
                IF j < at THEN @[j] ELSE @[j + 1]]]

remove(N, id) ==
    IF ~Live(N, id) THEN N
    ELSE LET k == querySelector(N, id)
             N1 == IF k = 0 THEN N
                   ELSE [N EXCEPT !.timers = @ \cup
                           {Timer("detach", id, N.dom[k].el, 0,
                                  now + AnimationDelay)}]
         IN  [N1 EXCEPT !.notifications = SelectSeq(@, LAMBDA n : n.id # id)]

show(N, type, options, rnd) ==
    LET notification ==
            [id |-> generateId(rnd), type |-> type, timestamp |-> now,
             duration |-> Or(options.duration, getDefaultDuration(type)),
             persistent |-> options.persistent, action |-> options.action]
        N1 == render([N EXCEPT !.notifications = Append(@, notification)],
                     notification)
        N2 == IF ~notification.persistent
              THEN [N1 EXCEPT !.timers = @ \cup
                      {Timer("remove", notification.id, Len(N.issued) + 1, 0,
                             now + ToDelay(notification.duration))}]
              ELSE N1
    IN  [N2 EXCEPT !.issued = Append(@, notification.id)]

\* the test of cleanupExpired
Expired(n) == ~n.persistent /\ GE(now - n.timestamp, n.duration)

\* forEach over the array as it was when the loop began, with the body of
\* clear (every element) or of cleanupExpired (the expired ones)
RECURSIVE forEachRemove(_, _, _, _)
forEachRemove(N, array, k, expiredOnly) ==
    IF k > Len(array) THEN N
    ELSE forEachRemove(IF expiredOnly => Expired(array[k])
                       THEN remove(N, array[k].id) ELSE N,
                       array, k + 1, expiredOnly)

\* forEach over an array that remove changes in place: the loop goes on at
\* the next index of the shortened array
RECURSIVE forEachInPlace(_, _)
forEachInPlace(N, k) ==
    IF k > Len(N.notifications) THEN N
    ELSE forEachInPlace(remove(N, N.notifications[k].id), k + 1)

clear_InPlace(N) == forEachInPlace(N, 1)

clear(N) == forEachRemove(N, N.notifications, 1, FALSE)

cleanupExpired(N) == forEachRemove(N, N.notifications, 1, TRUE)

\* the delay of the timer that resolves and goes on to the next in the queue
PaceDelay_NoGap(timeout) == ToDelay(timeout)

PaceDelay(timeout) == ToDelay(Plus(timeout, AnimationDelay))

\* the queue taken from its end
NextItem_Last(q) == Len(q)

\* queue.shift() takes the first
NextItem(q) == 1

\* Notifications.processQueue
Notifications_processQueue(N, rnd) ==
    IF N.queue = <<>> THEN [N EXCEPT !.isProcessing = FALSE]
    ELSE LET at == NextItem(N.queue)
             item == N.queue[at]
             N1 == show([N EXCEPT !.isProcessing = TRUE,
                                  !.queue = [j \in 1..(Len(@) - 1) |->
                                               IF j < at THEN @[j] ELSE @[j + 1]]],
                        item.type, item.options, rnd)
             notificationId == N1.issued[Len(N1.issued)]
             timeout == Or(item.options.duration, getDefaultDuration(item.type))
         IN  [N1 EXCEPT !.qcalls[item.call].id = notificationId,
                        !.qcalls[item.call].shownAt = now,
                        !.timers = @ \cup
                           {Timer("pace", notificationId, 0, item.call,
                                  now + PaceDelay(timeout))}]

showQueued(N, type, options, rnd) ==
    LET call == Len(N.qcalls) + 1
        N1 == [N EXCEPT !.qcalls = Append(@, [st |-> "pending", value |-> NoId,
                                              id |-> NoId, shownAt |-> 0,
                                              options |-> options,
                                              type |-> type,
                                              waited |-> N.isProcessing]),
                        !.queue = Append(@, [type |-> type, options |-> options,
                                             call |-> call])]
    IN  IF ~N1.isProcessing THEN Notifications_processQueue(N1, rnd) ELSE N1

\* the callback without the call of processQueue
paceCallback_NoNext(N, t, rnd) ==
    [N EXCEPT !.qcalls[t.call].st = "resolved",
              !.qcalls[t.call].value = t.id]

\* the callback of the timer of processQueue
paceCallback(N, t, rnd) ==
    Notifications_processQueue(
        [N EXCEPT !.qcalls[t.call].st = "resolved",
                  !.qcalls[t.call].value = t.id], rnd)

\* confirm: the listener is put on the action container of the element
\* querySelector finds, when that element has one
confirm(N, rnd) ==
    LET N1 == show(N, "info", [duration |-> Undefined, persistent |-> TRUE,
                               action |-> TRUE], rnd)
        notificationId == N1.issued[Len(N1.issued)]
        k == querySelector(N1, notificationId)
        listensOn == IF k # 0 /\ N1.dom[k].action THEN N1.dom[k].el ELSE 0
    IN  [N1 EXCEPT !.confirms = Append(@, [st |-> "pending",
                                           id |-> notificationId,
                                           el |-> listensOn])]

\* the listeners of confirm on element el, run for a click on the button
\* that stands for answer
RECURSIVE confirmListeners(_, _, _, _)
confirmListeners(N, el, answer, c) ==
    IF c > Len(N.confirms) THEN N
    ELSE IF N.confirms[c].el # el THEN confirmListeners(N, el, answer, c + 1)
    ELSE LET N1 == remove(N, N.confirms[c].id)
             N2 == IF N1.confirms[c].st = "pending"
                   THEN [N1 EXCEPT !.confirms[c].st = answer]
                   ELSE N1
         IN  confirmListeners(N2, el, answer, c + 1)

\* a click on a button of the action container of the k-th element: first
\* the listener render put there, then those of confirm
clickAction(N, k, answer) ==
    confirmListeners(remove(N, N.dom[k].id), N.dom[k].el, answer, 1)

\* ------------------------------------------------- Notifications: steps
Types == {"success"}
DurationOptions == {Undefined, Num(1200)}
RandomParts == {1, 2}
KnownIds == {issued[k] : k \in 1..Len(issued)}
Due == {t \in timers : t.due <= now}

\* a caller calls show(message, type, {duration, persistent})
Show(type, duration, persistent, rnd) ==
    /\ Len(issued) < MaxShown
    /\ NCommit(show(NCur, type, [duration |-> duration,
                                 persistent |-> persistent,
                                 action |-> FALSE], rnd))
    /\ UNCHANGED <<apiIdle, now, dq, otherVars>>

\* a caller calls remove(id)
Remove(id) ==
    /\ NCommit(remove(NCur, id))
    /\ UNCHANGED <<apiIdle, now, dq, otherVars>>

\* a click on the close button of the k-th element of the container
CloseClick(k) ==
    /\ k \in 1..Len(dom)
    /\ NCommit(remove(NCur, dom[k].id))
    /\ UNCHANGED <<apiIdle, now, dq, otherVars>>

\* a caller calls clear()
Clear ==
    /\ notifications # <<>>
    /\ NCommit(clear(NCur))
    /\ UNCHANGED <<apiIdle, now, dq, otherVars>>

\* the timer show armed fires
RemoveTimer(t) ==
    /\ t \in Due /\ t.kind = "remove"
    /\ NCommit(remove([NCur EXCEPT !.timers = @ \ {t}], t.id))
    /\ UNCHANGED <<apiIdle, now, dq, otherVars>>

\* the timer remove armed fires: the element leaves the container
DetachTimer(t) ==
    /\ t \in Due /\ t.kind = "detach"
    /\ NCommit([NCur EXCEPT !.timers = @ \ {t},
                            !.dom = SelectSeq(@, LAMBDA e : e.el # t.el)])
    /\ UNCHANGED <<apiIdle, now, dq, otherVars>>

\* the interval of bindEvents fires
Sweep(t) ==
    /\ t \in Due /\ t.kind = "sweep"
    /\ NCommit(cleanupExpired(
          [NCur EXCEPT !.timers = (@ \ {t}) \cup
              {Timer("sweep", NoId, 0, 0, t.due + SweepInterval)}]))
    /\ UNCHANGED <<apiIdle, now, dq, otherVars>>

\* time passes until the next timer is due
AdvanceTo(horizon) ==
    /\ Due = {}
    /\ \E t \in timers :
          /\ \A u \in timers : t.due <= u.due
          /\ t.due <= horizon
          /\ now' = t.due
    /\ UNCHANGED <<apiIdle, uiVars, otherVars>>

Advance == AdvanceTo(Horizon)

\* a caller calls showQueued(message, type, {duration, persistent})
ShowQueued(type, duration, persistent, rnd) ==
    /\ Len(qcalls) < MaxQueued
    /\ NCommit(showQueued(NCur, type, [duration |-> duration,
                                       persistent |-> persistent,
                                       action |-> FALSE], rnd))
    /\ UNCHANGED <<apiIdle, now, dq, otherVars>>

\* the timer of processQueue fires
PaceTimer(t, rnd) ==
    /\ t \in Due /\ t.kind = "pace"
    /\ NCommit(paceCallback([NCur EXCEPT !.timers = @ \ {t}], t, rnd))
    /\ UNCHANGED <<apiIdle, now, dq, otherVars>>

\* a caller calls confirm(message)
Confirm(rnd) ==
    /\ Len(issued) < MaxShown
    /\ NCommit(confirm(NCur, rnd))
    /\ UNCHANGED <<apiIdle, now, dq, otherVars>>

\* a click on Confirm ("true") or Cancel ("false") in the k-th element
ClickAction(k, answer) ==
    /\ k \in 1..Len(dom)
    /\ dom[k].action
    /\ NCommit(clickAction(NCur, k, answer))
    /\ UNCHANGED <<apiIdle, now, dq, otherVars>>

\* the duration show gives a notification, for one call
SeverityInputs == {"success", "error", "warning", "info", "danger", "",
                   "toString", "constructor"}
DurationInputs == {Undefined, NaN, Num(0), Num(1), Num(1500), Num(3000),
                   Num(60000), Num(0 - 1)}
DqIdle == [pc |-> "idle", type |-> "info", duration |-> Undefined,
           persistent |-> FALSE]

DqShow ==
    /\ dq.pc = "input"
    /\ NCommit(show(NCur, dq.type, [duration |-> dq.duration,
                                    persistent |-> dq.persistent,
                                    action |-> FALSE], 1))
    /\ dq' = [dq EXCEPT !.pc = "shown"]
    /\ UNCHANGED <<apiIdle, now, otherVars>>

\* the constructor of Notifications: an empty collection, the interval armed
InitNotifications ==
    /\ notifications = <<>>
    /\ dom = <<>>
    /\ timers = {Timer("sweep", NoId, 0, 0, SweepInterval)}
    /\ issued = <<>>
    /\ queue = <<>>
    /\ isProcessing = FALSE
    /\ qcalls = <<>>
    /\ confirms = <<>>

\* ======================================================== Browser storage
MaxSaved == 2      \* most entries of savedSearches in one run

StorageKeys == {"authToken", "recentSearches", "savedSearches", "sevenfish_cart"}
Queries == {"lamp", "vase"}

\* what localStorage holds under a key: nothing, the text JSON.stringify made
\* of a value, or a text that is not JSON
NoItem == [kind |-> "none"]
Garbled == [kind |-> "garbled"]
stringify(value) == [kind |-> "json", v |-> value]
ParseThrows(item) == item.kind = "garbled"
parse(item) == item.v

\* how a call ended: normally, with the exception localStorage raised, or
\* with the TypeError of a call on an undefined property; and what it
\* returned: "true", "false", "undefined", the "fallback" of the call or the
\* "parsed" stored text
Outcome(op, threw, value) == [op |-> op, threw |-> threw, value |-> value]

\* mode: "ok", "quota" (setItem throws QuotaExceededError) or "denied"
\* (every access to localStorage throws SecurityError)
StgInit ==
    [mode |-> "ok",
     data |-> [k \in StorageKeys |-> NoItem],
     last |-> Outcome("none", "none", "undefined")]

SetItemThrows(S) == S.mode \in {"quota", "denied"}
GetItemThrows(S) == S.mode = "denied"

\* Utils.parseJSON(jsonString, fallback)
parseJSON(item) == IF ParseThrows(item) THEN "fallback" ELSE "parsed"

\* Utils.storage.set(key, value)
storage_set(S, key, value) ==
    IF SetItemThrows(S) THEN [S EXCEPT !.last = Outcome("set", "none", "false")]
    ELSE [S EXCEPT !.data[key] = stringify(value),
                   !.last = Outcome("set", "none", "true")]

\* Utils.storage.get(key, fallback)
storage_get(S, key) ==
    [S EXCEPT !.last = Outcome("get", "none",
        IF GetItemThrows(S) \/ S.data[key].kind = "none" THEN "fallback"
        ELSE parseJSON(S.data[key]))]

\* Utils.storage.remove(key)
storage_remove(S, key) ==
    IF GetItemThrows(S) THEN [S EXCEPT !.last = Outcome("remove", "none", "false")]
    ELSE [S EXCEPT !.data[key] = NoItem,
                   !.last = Outcome("remove", "none", "true")]

\* Utils.storage.clear()
storage_clear(S) ==
    IF GetItemThrows(S) THEN [S EXCEPT !.last = Outcome("clear", "none", "false")]
    ELSE [S EXCEPT !.data = [k \in StorageKeys |-> NoItem],
                   !.last = Outcome("clear", "none", "true")]

\* Search.getRecentSearches() and Navigation.getRecentSearches(): the value
\* returned
RecentSearches(S) ==
    IF GetItemThrows(S) \/ S.data["recentSearches"].kind = "none"
       \/ ParseThrows(S.data["recentSearches"])
    THEN <<>>
    ELSE parse(S.data["recentSearches"])

getRecentSearches(S) ==
    [S EXCEPT !.last = Outcome("getRecentSearches", "none",
        IF GetItemThrows(S) \/ S.data["recentSearches"].kind = "none"
           \/ ParseThrows(S.data["recentSearches"])
        THEN "fallback" ELSE "parsed")]

\* array.filter(search => search !== query)
RECURSIVE filterOut(_, _)
filterOut(array, query) ==
    IF array = <<>> THEN <<>>
    ELSE IF Head(array) = query THEN filterOut(Tail(array), query)
    ELSE <<Head(array)>> \o filterOut(Tail(array), query)

\* array.slice(0, n)
slice(array, n) == SubSeq(array, 1, IF Len(array) < n THEN Len(array) ELSE n)

\* saveRecentSearch(query) of Search (limit 10) and of Navigation (limit 5):
\* the write is outside any try
saveRecentSearch(S, query, limit) ==
    IF SetItemThrows(S)
    THEN [S EXCEPT !.last = Outcome("saveRecentSearch", "storage", "undefined")]
    ELSE [S EXCEPT
            !.data["recentSearches"] =
                stringify(slice(<<query>> \o filterOut(RecentSearches(S), query), limit)),
            !.last = Outcome("saveRecentSearch", "none", "undefined")]

\* the list Search.saveSearch reads inside its try
SavedSearches(S) ==
    IF GetItemThrows(S) \/ S.data["savedSearches"].kind = "none"
       \/ ParseThrows(S.data["savedSearches"])
    THEN <<>>
    ELSE parse(S.data["savedSearches"])

\* Search.saveSearch() with currentQuery = query: the write is outside the
\* try, and the notification call follows it
saveSearch(S, query) ==
    IF SetItemThrows(S)
    THEN [S EXCEPT !.last = Outcome("saveSearch", "storage", "undefined")]
    ELSE [S EXCEPT
            !.data["savedSearches"] = stringify(Append(SavedSearches(S), query)),
            !.last = Outcome("saveSearch",
                             IF NotifyThrows THEN "TypeError" ELSE "none",
                             "undefined")]

\* Cart.saveCart() with this.items = items
saveCart(S, items) ==
    IF SetItemThrows(S) THEN [S EXCEPT !.last = Outcome("saveCart", "none", "undefined")]
    ELSE [S EXCEPT !.data["sevenfish_cart"] = stringify(items),
                   !.last = Outcome("saveCart", "none", "undefined")]

\* Cart.loadCart(): this.items afterwards
loadCart(S, items) ==
    IF GetItemThrows(S) THEN <<>>
    ELSE IF S.data["sevenfish_cart"].kind = "none" THEN items
    ELSE IF ParseThrows(S.data["sevenfish_cart"]) THEN <<>>
    ELSE parse(S.data["sevenfish_cart"])

\* ================================================================== Cart
MaxQuantity == 3   \* largest size of a quantity in one run

MockProducts == {"1", "2", "3", "4"}
ProductInputs == {"1", "2", "9"}
QuantityInputs == -1..2
ChangeInputs == {-2, -1, 1}

Item(id, quantity) == [id |-> id, quantity |-> quantity]
CartInit == [items |-> <<>>, threw |-> FALSE]

\* this.items.find(item => item.id === productId): its index, 0 if none
RECURSIVE findFrom(_, _, _)
findFrom(items, productId, k) ==
    IF k > Len(items) THEN 0
    ELSE IF items[k].id = productId THEN k
    ELSE findFrom(items, productId, k + 1)

find(items, productId) == findFrom(items, productId, 1)

\* getProductData(productId) is truthy
getProductData(productId) == productId \in MockProducts

\* this.items.filter(item => item.id !== productId)
RECURSIVE filterItems(_, _)
filterItems(items, productId) ==
    IF items = <<>> THEN <<>>
    ELSE IF Head(items).id = productId THEN filterItems(Tail(items), productId)
    ELSE <<Head(items)>> \o filterItems(Tail(items), productId)

\* the operations give the items afterwards, whether saveCart ran, and
\* whether the call ended in the TypeError of this.notifications.show
Done(items, saved, threw) == [items |-> items, saved |-> saved, threw |-> threw]

addItem(items, productId, quantity) ==
    LET k == find(items, productId)
    IN  Done(IF k # 0 THEN [items EXCEPT ![k].quantity = @ + quantity]
             ELSE IF getProductData(productId)
                  THEN Append(items, Item(productId, quantity))
                  ELSE items,
             TRUE, NotifyThrows)

removeItem(items, productId) ==
    Done(filterItems(items, productId), TRUE, NotifyThrows)

updateQuantity(items, productId, change) ==
    LET k == find(items, productId)
    IN  IF k = 0 THEN Done(items, FALSE, FALSE)
        ELSE IF items[k].quantity + change > 0
             THEN Done([items EXCEPT ![k].quantity = @ + change], TRUE, FALSE)
             ELSE removeItem(items, productId)

setQuantity(items, productId, quantity) ==
    LET k == find(items, productId)
    IN  IF k # 0 /\ quantity > 0
        THEN Done([items EXCEPT ![k].quantity = quantity], TRUE, FALSE)
        ELSE Done(items, FALSE, FALSE)

clearCart(items) == Done(<<>>, TRUE, FALSE)

InRange(items) ==
    \A k \in 1..Len(items) :
        items[k].quantity \in (0 - MaxQuantity)..MaxQuantity

\* one call of a cart operation with the result d
CartCall(d) ==
    /\ InRange(d.items)
    /\ cart' = [items |-> d.items, threw |-> d.threw]
    /\ stg' = IF d.saved THEN saveCart(stg, d.items) ELSE stg
    /\ UNCHANGED <<apiVars, wr, uiVars, wsk, deb>>

AddItem(productId, quantity) == CartCall(addItem(cart.items, productId, quantity))
UpdateQuantity(productId, change) ==
    CartCall(updateQuantity(cart.items, productId, change))
SetQuantity(productId, quantity) ==
    CartCall(setQuantity(cart.items, productId, quantity))
RemoveItem(productId) == CartCall(removeItem(cart.items, productId))
ClearCart == CartCall(clearCart(cart.items))

\* ------------------------------------------------ the storage accessors
StorageCall(S) ==
    /\ stg' = S
    /\ UNCHANGED <<apiVars, wr, uiVars, wsk, deb, cart>>

StorageValues(key) ==
    CASE key = "authToken" -> {"tok"}
      [] key = "sevenfish_cart" -> {<<Item("1", 2)>>}
      [] OTHER -> {<<"lamp">>}

StorageSet(key, value) == StorageCall(storage_set(stg, key, value))
StorageGet(key) == StorageCall(storage_get(stg, key))
StorageRemove(key) == StorageCall(storage_remove(stg, key))
StorageClear == StorageCall(storage_clear(stg))
SearchGetRecentSearches == StorageCall(getRecentSearches(stg))
SearchSaveRecentSearch(query) == StorageCall(saveRecentSearch(stg, query, 10))
NavigationGetRecentSearches == StorageCall(getRecentSearches(stg))
NavigationSaveRecentSearch(query) == StorageCall(saveRecentSearch(stg, query, 5))
SaveSearch(query) ==
    /\ Len(SavedSearches(stg)) < MaxSaved
    /\ StorageCall(saveSearch(stg, query))
SaveCart == StorageCall(saveCart(stg, cart.items))
LoadCart ==
    /\ cart' = [cart EXCEPT !.items = loadCart(stg, cart.items), !.threw = FALSE]
    /\ stg' = [stg EXCEPT !.last = Outcome("loadCart", "none", "undefined")]
    /\ UNCHANGED <<apiVars, wr, uiVars, wsk, deb>>

\* the browser: the storage fills up or is switched off, or comes back
StorageMode(mode) ==
    /\ stg.mode # mode
    /\ stg' = [stg EXCEPT !.mode = mode]
    /\ UNCHANGED <<apiVars, wr, uiVars, wsk, deb, cart>>

\* another script leaves a text that is not JSON under the key
Garble(key) ==
    /\ stg.mode = "ok" /\ stg.data[key].kind # "garbled"
    /\ stg' = [stg EXCEPT !.data[key] = Garbled]
    /\ UNCHANGED <<apiVars, wr, uiVars, wsk, deb, cart>>

\* ======================================================= Utils.debounce
MaxBurst == 3      \* most calls of debounced wrappers in one run
MaxTime == 6       \* last instant of the clock in a run of the wrappers

Wrappers == {1, 2}
Texts == {<<"f">>, <<"g">>}      \* func.toString()
Waits == {2, 3}
Args == {"a", "b"}

\* String(wait) for a wait below 100, as a sequence of characters
DigitChars == <<"0", "1", "2", "3", "4", "5", "6", "7", "8", "9">>
NumberToString(n) ==
    IF n < 10 THEN <<DigitChars[n + 1]>>
    ELSE <<DigitChars[(n \div 10) + 1], DigitChars[(n % 10) + 1]>>

\* const key = func.toString() + wait
KeyOf(wrapper) == wrapper.text \o NumberToString(wrapper.wait)

\* the Utils instance with two wrappers made by debounce(func, wait,
\* immediate): debounceTimers maps keys to timer ids, pending are the timers
\* of the browser, calls and log record the calls of the wrappers and the
\* invocations of their functions
DebInit(wrappers) ==
    [wrappers |-> wrappers,
     debounceTimers |-> {},
     pending |-> {},
     nextId |-> 1,
     calls |-> <<>>,
     log |-> <<>>]

DebIdle ==
    DebInit([w \in Wrappers |-> [text |-> <<"f">>, wait |-> 2, immediate |-> FALSE]])

Event(w, args, at) == [w |-> w, args |-> args, at |-> at]

\* this.debounceTimers.has(key), .get(key)
has(D, key) == \E e \in D.debounceTimers : e.key = key
get(D, key) == {e.id : e \in {x \in D.debounceTimers : x.key = key}}

\* the wrapper w called with args at the instant at
wrapperCall(D, w, args, at) ==
    LET key == KeyOf(D.wrappers[w])
        callNow == D.wrappers[w].immediate /\ ~has(D, key)
    IN  [D EXCEPT
           !.pending = {t \in @ : t.id \notin get(D, key)}
                       \cup {[id |-> D.nextId, w |-> w, args |-> args,
                              due |-> at + D.wrappers[w].wait]},
           !.debounceTimers = {e \in @ : e.key # key}
                              \cup {[key |-> key, id |-> D.nextId]},
           !.nextId = @ + 1,
           !.calls = Append(@, Event(w, args, at)),
           !.log = IF callNow THEN Append(@, Event(w, args, at)) ELSE @]

\* the callback of the timer t running at the instant at
timerCallback(D, t, at) ==
    [D EXCEPT
       !.pending = @ \ {t},
       !.debounceTimers = {e \in @ : e.key # KeyOf(D.wrappers[t.w])},
       !.log = IF ~D.wrappers[t.w].immediate
               THEN Append(@, Event(t.w, t.args, at)) ELSE @]

DebDue == {t \in deb.pending : t.due <= now}

\* a caller calls wrapper w; a timer that is due runs first
Call(w, args) ==
    /\ Len(deb.calls) < MaxBurst
    /\ DebDue = {}
    /\ deb' = wrapperCall(deb, w, args, now)
    /\ UNCHANGED <<apiIdle, now, uiVars, wsk, cart, stg>>

\* the timer t fires
DebounceTimer(t) ==
    /\ t \in DebDue
    /\ deb' = timerCallback(deb, t, now)
    /\ UNCHANGED <<apiIdle, now, uiVars, wsk, cart, stg>>

\* a millisecond passes
Millisecond ==
    /\ DebDue = {}
    /\ now < MaxTime
    /\ now' = now + 1
    /\ UNCHANGED <<apiIdle, uiVars, otherVars>>

\* the parts of the page not in use
InitOther == wsk = WsInit /\ cart = CartInit /\ deb = DebIdle /\ stg = StgInit

InitIdle ==
    /\ InitAPI
    /\ isOnline /\ notificationsDefined /\ storedToken = "null"
    /\ wr = WrIdle
    /\ InitOther

\* show, remove, clear, the timers and the sweep
InitNotif == InitIdle /\ InitNotifications /\ dq = DqIdle

NextNotif ==
    \/ \E type \in Types, duration \in DurationOptions,
          persistent \in BOOLEAN, rnd \in RandomParts :
          Show(type, duration, persistent, rnd)
    \/ \E id \in KnownIds \cup {NoId} : Remove(id)
    \/ \E k \in 1..MaxShown : CloseClick(k)
    \/ Clear
    \/ \E t \in timers : RemoveTimer(t)
    \/ \E t \in timers : DetachTimer(t)
    \/ \E t \in timers : Sweep(t)
    \/ Advance

SpecNotif == InitNotif /\ [][NextNotif]_vars

\* the sequential queue
NextQueue ==
    \/ \E type \in Types, duration \in DurationOptions,
          persistent \in BOOLEAN, rnd \in RandomParts :
          ShowQueued(type, duration, persistent, rnd)
    \/ \E t \in timers, rnd \in RandomParts : PaceTimer(t, rnd)
    \/ \E id \in KnownIds : Remove(id)
    \/ \E t \in timers : RemoveTimer(t)
    \/ \E t \in timers : DetachTimer(t)
    \/ \E t \in timers : Sweep(t)
    \/ Advance

SpecQueue == InitNotif /\ [][NextQueue]_vars

\* the queue with time enough to serve every call: a call is made while the
\* pacing delays of the calls before it and its own end by QueueHorizon
QueueHorizon == 2 * MaxQueued * SweepInterval

RECURSIVE PaceSum(_)
PaceSum(q) ==
    IF q = <<>> THEN 0
    ELSE PaceDelay(Or(Head(q).options.duration, getDefaultDuration(Head(q).type)))
         + PaceSum(Tail(q))

ServedBy(type, duration) ==
    LET pace == {t \in timers : t.kind = "pace"}
        from == IF pace = {} THEN now ELSE (CHOOSE t \in pace : TRUE).due
    IN  from + PaceSum(queue) + PaceDelay(Or(duration, getDefaultDuration(type)))

\* the random part of an id plays no part in the pacing: one value
PacedRandomParts == {1}

TimerStep ==
    \/ \E t \in timers, rnd \in PacedRandomParts : PaceTimer(t, rnd)
    \/ \E t \in timers : RemoveTimer(t)
    \/ \E t \in timers : DetachTimer(t)
    \/ \E t \in timers : Sweep(t)
    \/ AdvanceTo(QueueHorizon)

NextQueueLive ==
    \/ \E type \in Types, duration \in DurationOptions,
          persistent \in BOOLEAN, rnd \in PacedRandomParts :
          /\ ServedBy(type, duration) <= QueueHorizon
          /\ ShowQueued(type, duration, persistent, rnd)
    \/ TimerStep

\* timers that are due fire, and time goes on
SpecQueueLive == InitNotif /\ [][NextQueueLive]_vars /\ WF_vars(TimerStep)

\* confirm, next to show
NextConfirm ==
    \/ \E rnd \in RandomParts : Confirm(rnd)
    \/ \E rnd \in RandomParts : Show("info", Undefined, FALSE, rnd)
    \/ \E k \in 1..MaxShown, answer \in {"true", "false"} : ClickAction(k, answer)
    \/ \E t \in timers : RemoveTimer(t)
    \/ \E t \in timers : DetachTimer(t)
    \/ \E t \in timers : Sweep(t)
    \/ Advance

SpecConfirm == InitNotif /\ [][NextConfirm]_vars

\* one call of show on a fresh page, over the severities and durations
InitDuration ==
    /\ InitIdle /\ InitNotifications
    /\ dq \in [pc : {"input"}, type : SeverityInputs,
               duration : DurationInputs, persistent : BOOLEAN]

NextDuration == DqShow

SpecDuration == InitDuration /\ [][NextDuration]_vars

\* the constructor: isOnline = navigator.onLine, loadAuthToken()
Init == InitAPI /\ wr = WrIdle /\ InitNotifications /\ dq = DqIdle /\ InitOther

Next ==
    \/ \E qo \in BOOLEAN : Request(qo)
    \/ \E r \in 1..MaxReq : FetchFail(r)
    \/ \E r \in 1..MaxReq, status \in {200} \cup ErrStatuses : FetchRespond(r, status)
    \/ \E r \in 1..MaxReq : BodyRead(r)
    \/ Online
    \/ Offline
    \/ RedirectFire
    \/ Tick

Spec == Init /\ [][Next]_vars

\* every network call completes: a fetch settles and a body is read
NetworkFair ==
    \A r \in 1..MaxReq :
        /\ WF_vars(FetchFail(r) \/ \E status \in {200} \cup ErrStatuses :
                                     FetchRespond(r, status))
        /\ WF_vars(BodyRead(r))

SpecDrain == Init /\ [][Next]_vars /\ NetworkFair

\* the WebSocket of the client alone
InitSocket ==
    /\ InitAPI
    /\ isOnline /\ notificationsDefined /\ storedToken = "null"
    /\ wr = WrIdle
    /\ InitNotifications /\ dq = DqIdle /\ InitOther

NextSocket ==
    \/ \E throws \in BOOLEAN : WsConnect(throws)
    \/ \E i \in 1..MaxSockets : WsOpen(i)
    \/ \E i \in 1..MaxSockets : WsClose(i)
    \/ \E k \in 1..MaxSockets, throws \in BOOLEAN : WsReconnectTimer(k, throws)

SpecSocket == InitSocket /\ [][NextSocket]_vars

\* withRetry alone, on a client that does nothing else
\* the cart of a page, from the empty cart
InitCart ==
    /\ InitAPI
    /\ isOnline /\ storedToken = "null"
    /\ wr = WrIdle
    /\ InitNotifications /\ dq = DqIdle /\ InitOther

NextCart ==
    \/ \E productId \in ProductInputs, quantity \in QuantityInputs :
           AddItem(productId, quantity)
    \/ \E productId \in ProductInputs, change \in ChangeInputs :
           UpdateQuantity(productId, change)
    \/ \E productId \in ProductInputs, quantity \in QuantityInputs :
           SetQuantity(productId, quantity)
    \/ \E productId \in ProductInputs : RemoveItem(productId)
    \/ ClearCart

SpecCart == InitCart /\ [][NextCart]_vars

\* the accessors of the persisted keys over a storage that may fail
NextStorage ==
    \/ \E key \in StorageKeys : \E value \in StorageValues(key) :
           StorageSet(key, value)
    \/ \E key \in StorageKeys : StorageGet(key)
    \/ \E key \in StorageKeys : StorageRemove(key)
    \/ StorageClear
    \/ SearchGetRecentSearches
    \/ \E query \in Queries : SearchSaveRecentSearch(query)
    \/ NavigationGetRecentSearches
    \/ \E query \in Queries : NavigationSaveRecentSearch(query)
    \/ \E query \in Queries : SaveSearch(query)
    \/ SaveCart
    \/ LoadCart
    \/ \E mode \in {"ok", "quota", "denied"} : StorageMode(mode)
    \/ \E key \in StorageKeys : Garble(key)

SpecStorage == InitCart /\ [][NextStorage]_vars

\* two wrappers of one Utils instance, called over time
InitDebounce ==
    /\ InitAPI
    /\ isOnline /\ notificationsDefined /\ storedToken = "null"
    /\ wr = WrIdle
    /\ InitNotifications /\ dq = DqIdle
    /\ wsk = WsInit /\ cart = CartInit /\ stg = StgInit
    /\ \E text \in Texts, wait1 \in Waits, wait2 \in Waits, immediate \in BOOLEAN :
          deb = DebInit(
                  [w \in Wrappers |->
                      IF w = 1
                      THEN [text |-> <<"f">>, wait |-> wait1, immediate |-> FALSE]
                      ELSE [text |-> text, wait |-> wait2, immediate |-> immediate]])

NextDebounce ==
    \/ \E w \in Wrappers, args \in Args : Call(w, args)
    \/ \E t \in deb.pending : DebounceTimer(t)
    \/ Millisecond

SpecDebounce == InitDebounce /\ [][NextDebounce]_vars

\* confirm, and the other ways a notification is dismissed
NextDismiss ==
    \/ \E rnd \in RandomParts : Confirm(rnd)
    \/ \E k \in 1..MaxShown, answer \in {"true", "false"} : ClickAction(k, answer)
    \/ \E k \in 1..MaxShown : CloseClick(k)
    \/ \E id \in KnownIds : Remove(id)
    \/ Clear
    \/ \E t \in timers : DetachTimer(t)
    \/ \E t \in timers : Sweep(t)
    \/ Advance

SpecDismiss == InitNotif /\ [][NextDismiss]_vars

InitRetry ==
    /\ InitAPI
    /\ isOnline /\ notificationsDefined /\ storedToken = "null"
    /\ wr = WrIdle
    /\ InitNotifications /\ dq = DqIdle /\ InitOther

NextRetry ==
    \/ \E maxRetries \in 0..MaxAttempts, delay \in BaseDelays :
          WrCall(maxRetries, delay)
    \/ \E outcome \in FnOutcomes : WrFnSettles(outcome)
    \/ WrTimer

SpecRetry == InitRetry /\ [][NextRetry]_vars

\* ============================================================ properties
Reqs == 1..Len(req)
Passes == 1..Len(passes)
QueueEntries == {requestQueue[k] : k \in 1..Len(requestQueue)}
SnapEntries(p) == {passes[p].snapshot[k] : k \in 1..Len(passes[p].snapshot)}
Entries == QueueEntries \cup UNION {SnapEntries(p) : p \in Passes}
\* the entries the drain passes are done with
Drained == UNION {{passes[p].snapshot[k] : k \in 1..(passes[p].idx - 1)} : p \in Passes}
Replays(e) == {r \in Reqs : req[r].replayOf = e.id}
QueueEntriesNext == {requestQueue'[k] : k \in 1..Len(requestQueue')}
DrainedNext ==
    UNION {{passes'[p].snapshot[k] : k \in 1..(passes'[p].idx - 1)} : p \in 1..Len(passes')}
EntriesNext ==
    QueueEntriesNext \cup
    UNION {{passes'[p].snapshot[k] : k \in 1..Len(passes'[p].snapshot)} : p \in 1..Len(passes')}
GoesOnline == ~isOnline /\ isOnline'

\* C1: when the fetch of a request fails while isOnline is false and the
\* caller did not pass queueOffline:false, request does not reject: it
\* appends one entry to requestQueue and its promise is pending, and the
\* promise of every buffered request stays pending until a drain pass has
\* handled its entry.
C1_QueuedStaysPending ==
    [][/\ \A r \in Reqs :
            (req[r].st = "fetching" /\ req'[r].st \notin {"fetching", "reading"}
               /\ ~isOnline /\ req[r].qo)
            => /\ req'[r].st = "pending"
               /\ requestQueue' = Append(requestQueue,
                     [id |-> nEnt + 1, req |-> r, timestamp |-> now])
       /\ \A e \in EntriesNext \ DrainedNext : req'[e.req].st = "pending"]_vars

\* C2: within one drain pass the entries are handled in arrival order, one
\* at a time: the snapshot is in the order of arrival, and when the replay
\* of an entry starts every earlier entry of the pass has completed its
\* replay or has been rejected as stale.
C2_FifoWithinPass ==
    \A p \in Passes :
        LET P == passes[p] IN
        /\ \A k \in 1..(Len(P.snapshot) - 1) :
              /\ P.snapshot[k].id < P.snapshot[k + 1].id
              /\ P.snapshot[k].timestamp <= P.snapshot[k + 1].timestamp
        /\ \A j \in 1..Len(P.log) :
              P.log[j][1] = "start"
              => \A a \in 1..(P.log[j][2] - 1) :
                    \E i \in 1..(j - 1) :
                       P.log[i][2] = a /\ P.log[i][1] \in {"done", "stale"}
        /\ \A i, j \in 1..Len(P.log) : i < j => P.log[i][2] <= P.log[j][2]

\* a pass has replayed its first entry to completion and started the replay
\* of its second
C2_Witness ==
    \E p \in Passes :
        /\ Len(passes[p].log) >= 3
        /\ passes[p].log[1] = <<"start", 1>>
        /\ passes[p].log[2] = <<"done", 1>>
        /\ passes[p].log[3] = <<"start", 2>>

\* C3: when a drain reaches an entry whose age is 5 minutes or more, the
\* entry's promise is rejected with the staleness error and no request is
\* made for it; an entry younger than that gets exactly one replay request
\* in the pass.
C3_StaleRejectedFreshReplayedOnce ==
    [][\A p \in 1..Len(passes') :
          LET P == passes'[p]
              old == IF p \in Passes THEN Len(passes[p].log) ELSE 0
          IN  \A j \in (old + 1)..Len(P.log) :
                 LET e == P.snapshot[P.log[j][2]]
                     made == {r \in 1..Len(req') : req'[r].replayOf = e.id}
                 IN  /\ P.log[j][1] = "stale"
                        => /\ now - e.timestamp >= StaleThreshold
                           /\ req'[e.req].st = "rejected"
                           /\ req'[e.req].err = "Expired"
                           /\ made = {}
                     /\ P.log[j][1] = "start"
                        => /\ now - e.timestamp < StaleThreshold
                           /\ Cardinality(made) = 1
                     /\ P.log[j][1] = "done" => Cardinality(made) = 1]_vars

\* C4: every change of isOnline from false to true starts exactly one drain
\* pass over the buffer (its snapshot is the whole buffer, which is left
\* empty; with an empty buffer there is nothing to pass over), and no pass
\* starts in any other step.
C4_OneDrainPerTransition ==
    [][/\ (GoesOnline /\ requestQueue # <<>>)
          => /\ Len(passes') = Len(passes) + 1
             /\ passes'[Len(passes')].snapshot = requestQueue
             /\ requestQueue' = <<>>
       /\ (GoesOnline /\ requestQueue = <<>>)
          => /\ Len(passes') = Len(passes)
             /\ requestQueue' = <<>>
       /\ ~GoesOnline => Len(passes') = Len(passes)]_vars

\* two transitions to online have each started a pass
C4_Witness == Len(passes) >= 2 /\ isOnline

\* C5: a drain pass works on the snapshot taken when it starts, and the
\* buffer is cleared then: the snapshot never changes, no entry is in the
\* buffer and in a snapshot at once, and an entry enqueued while a pass is
\* running stays in the buffer until the next transition to online.
C5_SnapshotIsolated ==
    [][/\ \A p \in Passes : passes'[p].snapshot = passes[p].snapshot
       /\ \A e \in QueueEntriesNext :
             \A p \in 1..Len(passes') :
                \A k \in 1..Len(passes'[p].snapshot) :
                   passes'[p].snapshot[k].id # e.id
       /\ ~GoesOnline
          => /\ Len(requestQueue') >= Len(requestQueue)
             /\ SubSeq(requestQueue', 1, Len(requestQueue)) = requestQueue]_vars

\* the replay of an entry of a pass failed again while offline: its new
\* entry is in the buffer and the pass has gone on without replaying it
C5_Witness ==
    \E e \in QueueEntries :
        /\ req[e.req].replayOf # 0
        /\ \E p \in Passes :
              /\ passes[p].idx > Len(passes[p].snapshot)
              /\ \E d \in SnapEntries(p) : d.id = req[e.req].replayOf

\* C6: for every entry a drain pass has handled, the promise returned to
\* the caller is settled with the outcome of the entry's single replay
\* (resolved, or rejected with the replay's error) or rejected as stale,
\* and the entry is not in the buffer.
C6_SettledWithReplayOutcome ==
    \A p \in Passes :
        \A k \in 1..(passes[p].idx - 1) :
            LET e == passes[p].snapshot[k] IN
            /\ e \notin QueueEntries
            /\ IF \E j \in 1..Len(passes[p].log) : passes[p].log[j] = <<"stale", k>>
               THEN req[e.req].st = "rejected" /\ req[e.req].err = "Expired"
               ELSE /\ Cardinality(Replays(e)) = 1
                    /\ \A r \in Replays(e) :
                          /\ req[r].st \in Settled
                          /\ req[e.req].st = req[r].st
                          /\ req[e.req].err = req[r].err

\* C7: a 401 response to a request clears the credential (authToken and
\* the storage key), schedules the redirect to the login page, and the
\* request is rejected, not put in the buffer, also when isOnline is false.
C7_UnauthorizedNotQueued ==
    [][\A r \in Reqs :
          (req[r].st = "reading" /\ req[r].resp = 401 /\ req'[r].st # "reading")
          => /\ authToken' = "null"
             /\ storedToken' = "null"
             /\ redirects' = redirects + 1
             /\ requestQueue' = requestQueue
             /\ req'[r].st = "rejected"]_vars

\* C8: a request answered with a 4xx or 5xx response is never put in the
\* buffer: its promise is rejected with the HTTP error, whatever isOnline.
C8_HttpErrorNotQueued ==
    [][\A r \in Reqs :
          (req[r].st = "reading" /\ req[r].resp \in ErrStatuses
             /\ req'[r].st # "reading")
          => /\ requestQueue' = requestQueue
             /\ req'[r].st = "rejected"
             /\ req'[r].err = HttpError(req[r].resp)]_vars

ClientStatuses == 400..499
NoClientFailure == \A k \in 1..Len(wr.hist) : wr.hist[k] \notin ClientStatuses

\* C9: withRetry does not retry after a failure with a status in 400..499:
\* that failure is the last call of the operation, it is rethrown with no
\* wait after it, and an operation that fails with 404 is called once.
C9_NoRetryOnClientError ==
    /\ \A k \in 1..Len(wr.hist) :
          wr.hist[k] \in ClientStatuses
          => /\ k = Len(wr.hist)
             /\ wr.calls = k
             /\ wr.pc = "done"
             /\ wr.result = "rejected"
             /\ wr.lastError = <<wr.hist[k]>>
             /\ Len(wr.waits) = k - 1
    /\ (wr.hist # <<>> /\ wr.hist[1] = 404) => wr.calls = 1

\* an operation failing with 404 under maxRetries >= 3 has been called once
C9_Witness ==
    /\ wr.pc = "done" /\ wr.maxRetries >= 3
    /\ wr.hist = <<404>> /\ wr.calls = 1 /\ wr.result = "rejected"

\* what C10 states apart from the growth of the waits
C10_Attempts ==
    /\ wr.calls <= wr.maxRetries
    /\ wr.calls = Len(wr.hist) + (IF wr.pc = "awaitFn" THEN 1 ELSE 0)
    /\ \A k \in 1..Len(wr.hist) :
          wr.hist[k] = 200
          => k = Len(wr.hist) /\ wr.pc = "done" /\ wr.result = "resolved"
    /\ \A k \in 1..Len(wr.waits) : wr.waits[k] = wr.delay * 2 ^ (k - 1)
    /\ Len(wr.waits) = CASE wr.pc = "waiting" -> wr.calls
                         [] wr.calls = 0 -> 0
                         [] OTHER -> wr.calls - 1
    /\ (wr.pc = "done" /\ wr.result = "rejected")
          => /\ wr.calls = wr.maxRetries
             /\ wr.lastError = IF wr.hist = <<>> THEN <<>>
                               ELSE <<wr.hist[Len(wr.hist)]>>
    /\ (wr.pc = "done" /\ wr.hist = <<503, 503, 200>>) => wr.calls = 3

WaitsIncrease ==
    \A k \in 1..(Len(wr.waits) - 1) : wr.waits[k] < wr.waits[k + 1]

\* C10 as stated: for failures that are not client errors withRetry calls
\* the operation at most maxRetries times, returns the first success,
\* waits delay * 2^i after attempt i, rejects with the last error after
\* maxRetries failures, and the waits strictly increase.
C10_AsStated == NoClientFailure => (C10_Attempts /\ WaitsIncrease)

\* C10 amended: the same, the waits strictly increasing when delay > 0
\* (with delay 0 every wait is 0).
C10_RetryWithBackoff ==
    NoClientFailure => (C10_Attempts /\ (wr.delay > 0 => WaitsIncrease))

\* an operation failing twice with 503 and then succeeding, called three
\* times with waits 1000 and 2000
C10_Witness ==
    /\ wr.pc = "done" /\ wr.result = "resolved"
    /\ wr.hist = <<503, 503, 200>> /\ wr.calls = 3
    /\ wr.delay = 1000 /\ wr.waits = <<1000, 2000>>

\* -------------------------------------------- properties: Notifications
LiveIds == {notifications[k].id : k \in 1..Len(notifications)}
ShownCalls == {c \in 1..Len(qcalls) : qcalls[c].id # NoId}

\* C11: no two live notifications have the same id, and an id that show
\* has returned is never returned by a later call of show.
C11_IdsUnique ==
    /\ \A i, j \in 1..Len(notifications) :
          i # j => notifications[i].id # notifications[j].id
    /\ \A i, j \in 1..Len(issued) : i # j => issued[i] # issued[j]

\* C12: remove is idempotent: removing an id that is unknown or already
\* removed changes nothing (and does not throw), and a second removal of
\* the same id changes nothing, whether it comes from a caller, a timer,
\* the sweep, the close button or clear.
C12_RemoveIdempotent ==
    /\ \A id \in KnownIds \cup {NoId} :
          LET once == remove(NCur, id) IN
          /\ remove(once, id) = once
          /\ id \notin LiveIds => once = NCur
          /\ cleanupExpired(once).notifications = cleanupExpired(NCur).notifications
                \/ id \in LiveIds
    /\ LET cleared == clear(NCur) IN clear(cleared) = cleared
    /\ LET swept == cleanupExpired(NCur) IN cleanupExpired(swept) = swept

\* the timer of a notification is due after the notification was removed
C12_Witness ==
    \E t \in Due : t.kind = "remove" /\ t.id \notin LiveIds /\ notifications # <<>>

\* C13: a notification that is not persistent, created at T with duration
\* D, is not live at any time from T + D + 1000 on, whichever of its timer
\* and the sweep comes first.
C13_GoneAfterDurationPlusSweep ==
    \A k \in 1..Len(notifications) :
        LET n == notifications[k] IN
        (~n.persistent /\ n.duration.t = "number")
        => now < n.timestamp + n.duration.v + 1000

\* an element with a progress bar (not persistent) whose notification is
\* gone and whose timer has fired, a duration after its creation
C13_Witness ==
    \E k \in 1..Len(dom) :
        /\ dom[k].progress
        /\ dom[k].id \notin LiveIds
        /\ \A t \in timers : ~(t.kind = "remove" /\ t.el = dom[k].el)
        /\ now >= dom[k].id[1] + 1200

\* C14: no firing of a per-notification timer and no sweep removes a
\* persistent notification.
C14_PersistentStays ==
    [][(\E t \in timers : RemoveTimer(t) \/ Sweep(t))
       => \A k \in 1..Len(notifications) :
             notifications[k].persistent
             => \E j \in 1..Len(notifications') :
                   notifications'[j] = notifications[k]]_vars

\* C15: clear() leaves the collection empty, however many notifications
\* are live.
C15_ClearEmpties == clear(NCur).notifications = <<>>

\* every notification shown was removed in one turn
C15_Witness ==
    /\ notifications = <<>>
    /\ Len(issued) >= 2
    /\ Cardinality({t \in timers : t.kind = "detach"
                                     /\ t.due = now + 300}) >= 2

\* C16: the notifications of showQueued are passed to show in the order of
\* the calls, those called while one is displayed included.
C16_QueueOrder ==
    /\ Len(issued) <= Len(qcalls)
    /\ ShownCalls = 1..Len(issued)
    /\ \A c \in ShownCalls : issued[c] = qcalls[c].id
    /\ \A c, d \in ShownCalls : c < d => qcalls[c].shownAt < qcalls[d].shownAt

\* three calls displayed, the last two made while one was displayed
C16_Witness ==
    /\ Len(issued) >= 3
    /\ qcalls[2].waited /\ qcalls[3].waited
    /\ \E c \in 1..Len(qcalls) : qcalls[c].st = "resolved"

\* C17: at every instant at most one notification displayed through
\* showQueued is live.
C17_OneQueuedLive ==
    Cardinality({c \in ShownCalls : qcalls[c].id \in LiveIds}) <= 1

\* the duration of the display of call c, from its arguments
WindowOf(c) ==
    IF qcalls[c].options.duration.t = "number"
    THEN qcalls[c].options.duration.v ELSE 3000

C19_ConfirmSettles ==
    [][/\ \A c \in 1..Len(confirms') :
            c > Len(confirms)
            => \E k \in 1..Len(notifications') :
                  /\ notifications'[k].id = confirms'[c].id
                  /\ notifications'[k].persistent
       /\ \A c \in 1..Len(confirms), k \in 1..Len(dom) :
            \A answer \in {"true", "false"} :
               (/\ confirms[c].st = "pending"
                /\ confirms[c].id \in LiveIds
                /\ dom[k].action /\ dom[k].id = confirms[c].id
                /\ ClickAction(k, answer))
               => /\ confirms'[c].st = answer
                  /\ \A j \in 1..Len(notifications') :
                        notifications'[j].id # confirms[c].id]_vars

\* C20: show gives the notification options.duration when it is given,
\* whatever its value, and otherwise the default of the severity: 3000 for
\* success and info, 4000 for warning, 5000 for error, and 3000 for any
\* other severity.
C20_DurationChosen ==
    dq.pc = "shown"
    => /\ Len(notifications) = 1
       /\ notifications[1].duration =
             IF dq.duration # Undefined THEN dq.duration
             ELSE IF dq.type = "warning" THEN Num(4000)
             ELSE IF dq.type = "error" THEN Num(5000)
             ELSE Num(3000)

\* ------------------------------------------------ properties: API, second part
\* C21: a step from online to offline changes the connectivity flag only:
\* the buffer, the stored credential, the token, every request promise and
\* the drain passes are as before (no pass is started).
C21_OfflineChangesFlagOnly ==
    [][(isOnline /\ ~isOnline')
       => /\ requestQueue' = requestQueue
          /\ storedToken' = storedToken
          /\ authToken' = authToken
          /\ req' = req
          /\ passes' = passes
          /\ nEnt' = nEnt]_vars

\* the client is offline while a pass it started is waiting for a replay
\* and a request is buffered
C21_Witness ==
    /\ ~isOnline
    /\ requestQueue # <<>>
    /\ \E p \in Passes : passes[p].cur # 0
    /\ \E r \in Reqs : req[r].st = "pending"

\* C24: when Notifications is defined, the notification calls of the API
\* client do not change the outcome around them: queueRequest appends its
\* entry and returns an unsettled promise, the online and offline listeners
\* run to their end, and handleError returns the HTTP error for the
\* statuses 401, 403, 429 and 500.
C24_NotifierTransparent ==
    [][notificationsDefined
       => /\ \A r \in Reqs :
               (req[r].st \in {"fetching", "reading"}
                  /\ Len(requestQueue') = Len(requestQueue) + 1
                  /\ requestQueue'[Len(requestQueue')].req = r)
               => req'[r].st = "pending"
          /\ (isOnline # isOnline') => ~ListenerThrows
          /\ \A status \in {401, 403, 429, 500} :
               handleErrorThrows(status) = HttpError(status)]_vars

\* C25: every request buffered by queueRequest whose promise is unsettled
\* has its entry in requestQueue or in the part of the snapshot of a drain
\* pass that the pass has not finished with.
C25_NoBufferedRequestLost ==
    \A r \in Reqs :
        req[r].st = "pending" => \E e \in Entries \ Drained : e.req = r

\* an unsettled request waits in the snapshot of a running pass behind the
\* entry being replayed, while the buffer holds a newer one
C25_Witness ==
    /\ requestQueue # <<>>
    /\ \E p \in Passes :
          /\ passes[p].cur # 0
          /\ passes[p].idx < Len(passes[p].snapshot)
          /\ req[passes[p].snapshot[Len(passes[p].snapshot)].req].st = "pending"
    /\ req[requestQueue[1].req].st = "pending"

PassDone(p) == p \in Passes /\ passes[p].idx > Len(passes[p].snapshot)

\* C26: a drain pass that has started eventually finishes with every entry
\* of its snapshot, given that every network call completes, with no other
\* transition to online and also when the client goes offline during the
\* pass (the page being left and the bound on requests put aside).
C26_PassCompletes ==
    \A p \in 1..MaxReq :
        [](Len(passes) >= p
           => <>(PassDone(p) \/ ~Alive \/ Len(req) >= MaxReq))

\* C23: wsReconnectAttempts never exceeds maxReconnectAttempts (5); a
\* close at the maximum schedules nothing; every reconnect that is
\* scheduled has the delay min(1000 * 2^attempt, 30000), attempt being the
\* counter as attemptReconnect has just incremented it, so at most 30
\* seconds; and an open sets the counter to 0.
C23_ReconnectBounded ==
    [][/\ wsk.wsReconnectAttempts <= 5 /\ wsk'.wsReconnectAttempts <= 5
       /\ Len(wsk'.scheduled) > Len(wsk.scheduled)
          => LET delay == wsk'.scheduled[Len(wsk'.scheduled)]
                 attempt == wsk'.wsReconnectAttempts
                 full == 1000 * (2 ^ attempt)
             IN  /\ wsk.wsReconnectAttempts < 5
                 /\ attempt = wsk.wsReconnectAttempts + 1
                 /\ delay = (IF full < 30000 THEN full ELSE 30000)
                 /\ delay <= 30000
       /\ wsk.wsReconnectAttempts >= 5
          => Len(wsk'.scheduled) <= Len(wsk.scheduled)
       /\ \A i \in 1..Len(wsk.sockets) :
             (wsk.sockets[i] # "open" /\ wsk'.sockets[i] = "open")
             => wsk'.wsReconnectAttempts = 0]_vars

\* five reconnects were scheduled and made, the sixth socket has closed
\* and nothing is scheduled
C23_Witness ==
    /\ wsk.wsReconnectAttempts = 5
    /\ wsk.scheduled = <<>>
    /\ Len(wsk.sockets) = 6
    /\ \A i \in 1..6 : wsk.sockets[i] = "closed"


\* C22: while the storage fails, no accessor of the persisted keys ends in
\* the exception the storage raised: a read gives the default value and a
\* write leaves the stored data as it was.
C22_StorageFailureContained ==
    [][stg'.mode = stg.mode =>
          /\ stg'.last.threw # "storage"
          /\ (GetItemThrows(stg) /\ stg'.last.op \in {"get", "getRecentSearches"})
                 => stg'.last.value = "fallback"
          /\ (GetItemThrows(stg) /\ LoadCart) => cart'.items = <<>>
          /\ (/\ SetItemThrows(stg)
              /\ stg'.last.op \in {"set", "saveRecentSearch", "saveSearch", "saveCart"})
                 => stg'.data = stg.data]_vars

\* C29: every item of the cart has a quantity of at least 1.
C29_QuantitiesPositive ==
    \A k \in 1..Len(cart.items) : cart.items[k].quantity >= 1

\* an update that brings a quantity to zero or below removes the item
UpdateToZeroRemoves ==
    [][\A productId \in ProductInputs, change \in ChangeInputs :
           (/\ UpdateQuantity(productId, change)
            /\ find(cart.items, productId) # 0
            /\ cart.items[find(cart.items, productId)].quantity + change <= 0)
           => find(cart'.items, productId) = 0]_vars


\* the call c of a wrapper ends a burst: no later call of the same wrapper
\* comes less than wait after it
LastOfBurst(c) ==
    ~\E c2 \in (c + 1)..Len(deb.calls) :
        /\ deb.calls[c2].w = deb.calls[c].w
        /\ deb.calls[c2].at < deb.calls[c].at + deb.wrappers[deb.calls[c].w].wait

\* C30: for a wrapper made with immediate false, every burst of calls is
\* followed by exactly one invocation of its function, wait after the last
\* call of the burst and with that call's arguments, and the function is
\* invoked at no other time, whatever the other wrapper is called with.
C30_OncePerBurst ==
    /\ \A c \in 1..Len(deb.calls) :
         LET w == deb.calls[c].w
             at == deb.calls[c].at + deb.wrappers[w].wait
         IN  (~deb.wrappers[w].immediate /\ LastOfBurst(c) /\ now > at)
             => /\ Cardinality({i \in 1..Len(deb.log) :
                       deb.log[i].w = w /\ deb.log[i].at = at}) = 1
                /\ \E i \in 1..Len(deb.log) :
                       deb.log[i] = Event(w, deb.calls[c].args, at)
    /\ \A i \in 1..Len(deb.log) :
         ~deb.wrappers[deb.log[i].w].immediate
         => \E c \in 1..Len(deb.calls) :
               /\ LastOfBurst(c)
               /\ deb.log[i] = Event(deb.calls[c].w, deb.calls[c].args,
                                     deb.calls[c].at
                                       + deb.wrappers[deb.calls[c].w].wait)


PacePending == \E t \in timers : t.kind = "pace"

\* C27: every call of showQueued is in the end served (its notification has
\* been shown and its promise is resolved), isProcessing is true exactly
\* while a pacing timer is pending, and entries never wait in the queue
\* without such a timer.
C27_QueueServed ==
    /\ \A c \in 1..MaxQueued :
         [](Len(qcalls) >= c
            => <>(/\ Len(qcalls) >= c
                  /\ qcalls[c].st = "resolved"
                  /\ qcalls[c].id # NoId
                  /\ qcalls[c].value = qcalls[c].id))
    /\ [](isProcessing <=> PacePending)
    /\ [](queue # <<>> => PacePending)

\* every call that can be made has been made and served, one of them after
\* waiting in the queue
C27_Witness ==
    /\ Len(qcalls) = MaxQueued
    /\ \A c \in 1..Len(qcalls) : qcalls[c].st = "resolved"
    /\ \E c \in 1..Len(qcalls) : qcalls[c].waited
    /\ ~isProcessing


\* C28: the promise of confirm is settled at most once, only by a click on
\* the confirm or the cancel button, and only while its notification is in
\* the live collection: once the notification has left the collection
\* another way the promise stays pending.
C28_SettledOnlyByAction ==
    [][\A c \in 1..Len(confirms) :
         /\ confirms[c].st # "pending" => confirms'[c].st = confirms[c].st
         /\ (confirms[c].st = "pending" /\ confirms'[c].st # "pending")
            => /\ \E k \in 1..MaxShown, answer \in {"true", "false"} :
                     ClickAction(k, answer)
               /\ Live(NCur, confirms[c].id)]_vars

====
